---- MODULE Spec2Model ----
(***************************************************************************)
(* k-way merge of sorted key/value streams: StreamOp, StreamUnion,         *)
(* StreamIntersection, StreamHeap and Slot of src/raw/ops.rs.              *)
(*                                                                         *)
(* A key is a byte string (a sequence of bytes); an input stream is a      *)
(* sequence of [input, output] pairs, strictly ascending by input.         *)
(* Option<T> is a sequence of length at most one: <<>> is None.            *)
(***************************************************************************)
EXTENDS Integers, Sequences, FiniteSets

VARIABLES
    streams,    \* StreamOp.streams, then StreamHeap.rdrs: the input streams
    mode,       \* "build" | "union" | "intersection": which object exists
    rdrs,       \* rdrs[i+1]: number of next() calls made on input stream i
    heap,       \* StreamHeap.heap: the Slots in the BinaryHeap
    cur_slot,   \* cur_slot: Option<Slot>
    outs,       \* outs: Vec<FstOutput>
    pc,         \* position inside next(): "idle" between calls
    slot,       \* StreamIntersection::next's local `slot`: Option<Slot>
    popped,     \* StreamIntersection::next's local `popped`
    last,       \* what the latest next() returned: "NotCalled" | "Some" | "None"
    emitted,    \* every (key, outs) pair returned so far, in order
    exhAtPop,   \* the streams that had reported exhaustion when the latest
                \* candidate was popped by heap.pop() (line 61 / line 92)
    cands       \* the key of every Slot heap.pop() handed to next() (line 61 /
                \* line 92), in order

vars == <<streams, mode, rdrs, heap, cur_slot, outs, pc, slot, popped,
          last, emitted, exhAtPop, cands>>

----------------------------------------------------------------------------
(* Bounds of the model.                                                    *)

MaxStreams == 3     \* at most this many StreamOp.add calls
MaxTotal == 4       \* at most this many elements over all input streams

\* The keys the input streams draw from: "a", "ab", "b" as byte strings.
KeyUniverse == {<<1>>, <<1, 2>>, <<2>>}

\* The output values the input streams draw from.
Vals == {1, 2}

----------------------------------------------------------------------------
(* Byte strings and their order.                                           *)

RECURSIVE LexCmp(_, _)
\* Ord for [u8] / Vec<u8>: lexicographic, a proper prefix is smaller.
LexCmp(a, b) ==
    IF a = <<>> /\ b = <<>> THEN "Equal"
    ELSE IF a = <<>> THEN "Less"
    ELSE IF b = <<>> THEN "Greater"
    ELSE IF Head(a) < Head(b) THEN "Less"
    ELSE IF Head(a) > Head(b) THEN "Greater"
    ELSE LexCmp(Tail(a), Tail(b))

KeyLess(a, b) == LexCmp(a, b) = "Less"

Reverse(ord) ==
    CASE ord = "Less" -> "Greater"
      [] ord = "Greater" -> "Less"
      [] OTHER -> "Equal"

----------------------------------------------------------------------------
(* Slot.                                                                   *)

\* Slot::new: the key buffer is empty and the output is Output::zero().
SlotNew(rdr_idx) == [idx |-> rdr_idx, input |-> <<>>, output |-> 0]

\* Slot::fst_output reporting a 1-based stream index.
FstOutputOneBased(s) == [index |-> s.idx + 1, output |-> s.output]

\* Slot::fst_output
FstOutputOf(s) == [index |-> s.idx, output |-> s.output]

\* refill without its set_output call.
SlotSetKeepsOutput(s, input, output) ==
    [idx |-> s.idx, input |-> input, output |-> s.output]

\* Slot::set_input followed by Slot::set_output, as refill calls them.
SlotSet(s, input, output) == [idx |-> s.idx, input |-> input, output |-> output]

\* Slot::partial_cmp without `.map(|ord| ord.reverse())`.
SlotCmpNotReversed(a, b) ==
    LET k == LexCmp(a.input, b.input)
    IN  IF k # "Equal" THEN k
        ELSE IF a.output < b.output THEN "Less"
        ELSE IF a.output > b.output THEN "Greater"
        ELSE "Equal"

\* Slot::partial_cmp comparing the keys only.
SlotCmpKeyOnly(a, b) == Reverse(LexCmp(a.input, b.input))

\* Slot::partial_cmp / Slot::cmp: (input, output) compared as a tuple, reversed.
SlotCmp(a, b) ==
    LET k == LexCmp(a.input, b.input)
        natural == IF k # "Equal" THEN k
                   ELSE IF a.output < b.output THEN "Less"
                   ELSE IF a.output > b.output THEN "Greater"
                   ELSE "Equal"
    IN  Reverse(natural)

----------------------------------------------------------------------------
(* StreamHeap, as a record [rdrs, heap] over the fixed input `ss`.         *)
(* The BinaryHeap is the set of its Slots: a Slot carries its stream's     *)
(* ordinal and a key that stream yields only once, so no two Slots pushed  *)
(* are ever the same record.                                               *)

\* A heap that hands out any of its Slots, whatever their order.
GreatestAny(h) == h

\* BinaryHeap::pop / peek candidates: the greatest Slots under SlotCmp. Which
\* of several Slots that compare Equal comes out is the heap's choice.
Greatest(h) == {s \in h : \A t \in h : SlotCmp(t, s) # "Greater"}

\* peek_is_duplicate with its comparison negated.
PeekIsDuplicateInverted(h, key) == \E s \in Greatest(h) : s.input # key

\* StreamHeap::peek_is_duplicate
PeekIsDuplicate(h, key) == \E s \in Greatest(h) : s.input = key

\* num_slots one short of the stream count.
NumSlotsOffByOne(ss) == Len(ss) - 1

\* StreamHeap::num_slots
NumSlots(ss) == Len(ss)

\* Stream::next of input stream i after n earlier calls: Option<(input, output)>.
RdrNext(ss, i, n) == IF n < Len(ss[i + 1]) THEN <<ss[i + 1][n + 1]>> ELSE <<>>

\* refill pushing the Slot back, unchanged, when its stream is exhausted.
RefillKeepsSlot(ss, sh, s) ==
    LET r == RdrNext(ss, s.idx, sh.rdrs[s.idx + 1])
        read == [sh.rdrs EXCEPT ![s.idx + 1] = @ + 1]
    IN  IF r # <<>>
        THEN [rdrs |-> read,
              heap |-> sh.heap \cup {SlotSet(s, r[1].input, r[1].output)}]
        ELSE [rdrs |-> read, heap |-> sh.heap \cup {s}]

\* StreamHeap::refill
Refill(ss, sh, s) ==
    LET r == RdrNext(ss, s.idx, sh.rdrs[s.idx + 1])
        read == [sh.rdrs EXCEPT ![s.idx + 1] = @ + 1]
    IN  IF r # <<>>
        THEN [rdrs |-> read,
              heap |-> sh.heap \cup {SlotSet(s, r[1].input, r[1].output)}]
        ELSE [rdrs |-> read, heap |-> sh.heap]

RECURSIVE PrimeSkipsLast(_, _, _)
\* The loop of StreamHeap::new stopping one ordinal early.
PrimeSkipsLast(ss, sh, i) ==
    IF i + 1 >= Len(ss) THEN sh
    ELSE PrimeSkipsLast(ss, Refill(ss, sh, SlotNew(i)), i + 1)

RECURSIVE Prime(_, _, _)
\* The loop of StreamHeap::new from ordinal i on.
Prime(ss, sh, i) ==
    IF i >= Len(ss) THEN sh ELSE Prime(ss, Refill(ss, sh, SlotNew(i)), i + 1)

\* StreamHeap::new
StreamHeapNew(ss) == Prime(ss, [rdrs |-> [i \in 1..Len(ss) |-> 0], heap |-> {}], 0)

----------------------------------------------------------------------------
(* Input streams: every strictly ascending sequence over KeyUniverse.      *)

MinKey(ks) == CHOOSE k \in ks : \A o \in ks : o = k \/ KeyLess(k, o)

RECURSIVE Ascending(_, _)
Ascending(ks, v) ==
    IF ks = {} THEN <<>>
    ELSE LET k == MinKey(ks)
         IN  <<[input |-> k, output |-> v[k]]>> \o Ascending(ks \ {k}, v)

InputStreams ==
    {Ascending(ks, v) : <<ks, v>> \in
        {<<ks0, v0>> \in (SUBSET KeyUniverse) \X [KeyUniverse -> Vals] :
            \A k \in KeyUniverse \ ks0 : v0[k] = 1}}

RECURSIVE TotalLen(_)
TotalLen(ss) == IF ss = <<>> THEN 0 ELSE Len(Head(ss)) + TotalLen(Tail(ss))

Exhausted(ss, rd) == {i \in 0..(Len(ss) - 1) : rd[i + 1] > Len(ss[i + 1])}

----------------------------------------------------------------------------
(* StreamOp.                                                               *)

\* StreamOp::new
Init ==
    /\ streams = <<>>
    /\ mode = "build"
    /\ rdrs = <<>>
    /\ heap = {}
    /\ cur_slot = <<>>
    /\ outs = <<>>
    /\ pc = "idle"
    /\ slot = <<>>
    /\ popped = 0
    /\ last = "NotCalled"
    /\ emitted = <<>>
    /\ exhAtPop = {}
    /\ cands = <<>>

\* StreamOp::add
Add ==
    /\ mode = "build"
    /\ Len(streams) < MaxStreams
    /\ \E s \in InputStreams :
        /\ TotalLen(streams) + Len(s) <= MaxTotal
        /\ streams' = Append(streams, s)
    /\ UNCHANGED <<mode, rdrs, heap, cur_slot, outs, pc, slot, popped,
                   last, emitted, exhAtPop, cands>>

\* StreamOp::union
Union ==
    /\ mode = "build"
    /\ mode' = "union"
    /\ LET sh == StreamHeapNew(streams)
       IN  rdrs' = sh.rdrs /\ heap' = sh.heap
    /\ outs' = <<>>
    /\ cur_slot' = <<>>
    /\ UNCHANGED <<streams, pc, slot, popped, last, emitted, exhAtPop,
                   cands>>

\* StreamOp::intersection
Intersection ==
    /\ mode = "build"
    /\ mode' = "intersection"
    /\ LET sh == StreamHeapNew(streams)
       IN  rdrs' = sh.rdrs /\ heap' = sh.heap
    /\ outs' = <<>>
    /\ cur_slot' = <<>>
    /\ UNCHANGED <<streams, pc, slot, popped, last, emitted, exhAtPop,
                   cands>>

----------------------------------------------------------------------------
(* StreamUnion::next.                                                      *)

\* next() without the refill of the withheld Slot.
AfterTakeNoRefill == [rdrs |-> rdrs, heap |-> heap]

\* The StreamHeap after `if let Some(slot) = self.cur_slot.take() { refill }`.
AfterTake ==
    IF cur_slot # <<>>
    THEN Refill(streams, [rdrs |-> rdrs, heap |-> heap], cur_slot[1])
    ELSE [rdrs |-> rdrs, heap |-> heap]

\* StreamUnion::next treating an empty heap as a fresh Slot instead of None.
UnionBeginNoneAsSlot ==
    /\ mode = "union" /\ pc = "idle"
    /\ LET sh == AfterTake
           fresh == IF sh.heap = {} THEN {SlotNew(0)} ELSE Greatest(sh.heap)
       IN  /\ rdrs' = sh.rdrs
           /\ \E s \in fresh :
                /\ heap' = sh.heap \ {s}
                /\ cur_slot' = <<s>>
                /\ outs' = <<FstOutputOf(s)>>
                /\ pc' = "drain"
                /\ exhAtPop' = Exhausted(streams, sh.rdrs)
                /\ cands' = Append(cands, s.input)
                /\ UNCHANGED last
    /\ UNCHANGED <<streams, mode, slot, popped, emitted>>

\* StreamUnion::next reading cur_slot without take(): the withheld Slot
\* stays in place when the heap turns out empty.
UnionBeginKeepsSlot ==
    /\ mode = "union" /\ pc = "idle"
    /\ LET sh == AfterTake
       IN  /\ rdrs' = sh.rdrs
           /\ IF sh.heap = {}
              THEN /\ heap' = sh.heap
                   /\ last' = "None"
                   /\ UNCHANGED <<cur_slot, outs, pc, exhAtPop, cands>>
              ELSE \E s \in Greatest(sh.heap) :
                   /\ heap' = sh.heap \ {s}
                   /\ cur_slot' = <<s>>
                   /\ outs' = <<FstOutputOf(s)>>
                   /\ pc' = "drain"
                   /\ exhAtPop' = Exhausted(streams, sh.rdrs)
                   /\ cands' = Append(cands, s.input)
                   /\ UNCHANGED last
    /\ UNCHANGED <<streams, mode, slot, popped, emitted>>

\* Lines 58-69: refill the withheld Slot, pop; return None on an empty heap,
\* otherwise withhold the popped Slot and start the contribution list.
UnionBegin ==
    /\ mode = "union" /\ pc = "idle"
    /\ LET sh == AfterTake
       IN  /\ rdrs' = sh.rdrs
           /\ IF sh.heap = {}
              THEN /\ heap' = sh.heap
                   /\ cur_slot' = <<>>
                   /\ last' = "None"
                   /\ UNCHANGED <<outs, pc, exhAtPop, cands>>
              ELSE \E s \in Greatest(sh.heap) :
                   /\ heap' = sh.heap \ {s}
                   /\ cur_slot' = <<s>>
                   /\ outs' = <<FstOutputOf(s)>>
                   /\ pc' = "drain"
                   /\ exhAtPop' = Exhausted(streams, sh.rdrs)
                   /\ cands' = Append(cands, s.input)
                   /\ UNCHANGED last
    /\ UNCHANGED <<streams, mode, slot, popped, emitted>>

\* The pop_if_equal loop dropping a matched Slot instead of refilling it.
UnionDrainNoRefill ==
    /\ mode = "union" /\ pc = "drain"
    /\ PeekIsDuplicate(heap, cur_slot[1].input)
    /\ \E s2 \in Greatest(heap) :
        /\ outs' = Append(outs, FstOutputOf(s2))
        /\ heap' = heap \ {s2}
    /\ UNCHANGED <<streams, mode, rdrs, cur_slot, pc, slot, popped, last,
                   emitted, exhAtPop, cands>>

\* Lines 70-73: one iteration of the pop_if_equal loop.
UnionDrain ==
    /\ mode = "union" /\ pc = "drain"
    /\ PeekIsDuplicate(heap, cur_slot[1].input)
    /\ \E s2 \in Greatest(heap) :
        LET sh == Refill(streams, [rdrs |-> rdrs, heap |-> heap \ {s2}], s2)
        IN  /\ outs' = Append(outs, FstOutputOf(s2))
            /\ rdrs' = sh.rdrs
            /\ heap' = sh.heap
    /\ UNCHANGED <<streams, mode, cur_slot, pc, slot, popped, last, emitted,
                   exhAtPop, cands>>

\* StreamUnion::next refilling the returned Slot before it returns.
UnionReturnEager ==
    /\ mode = "union" /\ pc = "drain"
    /\ ~PeekIsDuplicate(heap, cur_slot[1].input)
    /\ pc' = "idle"
    /\ last' = "Some"
    /\ emitted' = Append(emitted, [key |-> cur_slot[1].input, outs |-> outs])
    /\ LET sh == Refill(streams, [rdrs |-> rdrs, heap |-> heap], cur_slot[1])
       IN  rdrs' = sh.rdrs /\ heap' = sh.heap
    /\ UNCHANGED <<streams, mode, cur_slot, outs, slot, popped, exhAtPop,
                   cands>>

\* Line 74: the loop ends and next() returns Some((key, outs)).
UnionReturn ==
    /\ mode = "union" /\ pc = "drain"
    /\ ~PeekIsDuplicate(heap, cur_slot[1].input)
    /\ pc' = "idle"
    /\ last' = "Some"
    /\ emitted' = Append(emitted, [key |-> cur_slot[1].input, outs |-> outs])
    /\ UNCHANGED <<streams, mode, rdrs, heap, cur_slot, outs, slot, popped,
                   exhAtPop, cands>>

----------------------------------------------------------------------------
(* StreamIntersection::next.                                               *)

\* Lines 88-90: refill the withheld Slot and enter the loop.
IntersectionBegin ==
    /\ mode = "intersection" /\ pc = "idle"
    /\ LET sh == AfterTake
       IN  rdrs' = sh.rdrs /\ heap' = sh.heap
    /\ cur_slot' = <<>>
    /\ pc' = "loop"
    /\ UNCHANGED <<streams, mode, outs, slot, popped, last, emitted,
                   exhAtPop, cands>>

\* StreamIntersection::next comparing the match count before it looks at
\* what pop() returned: an empty heap yields a fresh Slot, not None.
IntersectionPopNoneAsSlot ==
    /\ mode = "intersection" /\ pc = "loop"
    /\ \E s \in (IF heap = {} THEN {SlotNew(0)} ELSE Greatest(heap)) :
        /\ heap' = heap \ {s}
        /\ slot' = <<s>>
        /\ outs' = <<FstOutputOf(s)>>
        /\ popped' = 1
        /\ pc' = "drain"
        /\ exhAtPop' = Exhausted(streams, rdrs)
        /\ cands' = Append(cands, s.input)
        /\ UNCHANGED last
    /\ UNCHANGED <<streams, mode, rdrs, cur_slot, emitted>>

\* Lines 92-98: pop a candidate; return None on an empty heap.
IntersectionPop ==
    /\ mode = "intersection" /\ pc = "loop"
    /\ IF heap = {}
       THEN /\ pc' = "idle"
            /\ last' = "None"
            /\ UNCHANGED <<heap, slot, outs, popped, exhAtPop, cands>>
       ELSE \E s \in Greatest(heap) :
            /\ heap' = heap \ {s}
            /\ slot' = <<s>>
            /\ outs' = <<FstOutputOf(s)>>
            /\ popped' = 1
            /\ pc' = "drain"
            /\ exhAtPop' = Exhausted(streams, rdrs)
            /\ cands' = Append(cands, s.input)
            /\ UNCHANGED last
    /\ UNCHANGED <<streams, mode, rdrs, cur_slot, emitted>>

\* Lines 99-103: one iteration of the pop_if_equal loop.
IntersectionDrain ==
    /\ mode = "intersection" /\ pc = "drain"
    /\ PeekIsDuplicate(heap, slot[1].input)
    /\ \E s2 \in Greatest(heap) :
        LET sh == Refill(streams, [rdrs |-> rdrs, heap |-> heap \ {s2}], s2)
        IN  /\ outs' = Append(outs, FstOutputOf(s2))
            /\ rdrs' = sh.rdrs
            /\ heap' = sh.heap
    /\ popped' = popped + 1
    /\ UNCHANGED <<streams, mode, cur_slot, pc, slot, last, emitted,
                   exhAtPop, cands>>

\* The rejection pushing the candidate's Slot back without refilling it.
IntersectionRejectPushBack ==
    /\ mode = "intersection" /\ pc = "drain"
    /\ ~PeekIsDuplicate(heap, slot[1].input)
    /\ popped < NumSlots(streams)
    /\ heap' = heap \cup {slot[1]}
    /\ slot' = <<>>
    /\ pc' = "loop"
    /\ UNCHANGED <<streams, mode, rdrs, cur_slot, outs, popped, last, emitted,
                   exhAtPop, cands>>

\* Lines 104-105: fewer matches than streams, the candidate is rejected.
IntersectionReject ==
    /\ mode = "intersection" /\ pc = "drain"
    /\ ~PeekIsDuplicate(heap, slot[1].input)
    /\ popped < NumSlots(streams)
    /\ LET sh == Refill(streams, [rdrs |-> rdrs, heap |-> heap], slot[1])
       IN  rdrs' = sh.rdrs /\ heap' = sh.heap
    /\ slot' = <<>>
    /\ pc' = "loop"
    /\ UNCHANGED <<streams, mode, cur_slot, outs, popped, last, emitted,
                   exhAtPop, cands>>

\* Lines 106-109: every stream matched, next() returns Some((key, outs)).
IntersectionReturn ==
    /\ mode = "intersection" /\ pc = "drain"
    /\ ~PeekIsDuplicate(heap, slot[1].input)
    /\ ~(popped < NumSlots(streams))
    /\ cur_slot' = slot
    /\ slot' = <<>>
    /\ pc' = "idle"
    /\ last' = "Some"
    /\ emitted' = Append(emitted, [key |-> slot[1].input, outs |-> outs])
    /\ UNCHANGED <<streams, mode, rdrs, heap, outs, popped, exhAtPop, cands>>

----------------------------------------------------------------------------

Next ==
    \/ Add
    \/ Union
    \/ Intersection
    \/ UnionBegin
    \/ UnionDrain
    \/ UnionReturn
    \/ IntersectionBegin
    \/ IntersectionPop
    \/ IntersectionDrain
    \/ IntersectionReject
    \/ IntersectionReturn

Spec == Init /\ [][Next]_vars

\* The steps of next(): a call that has started runs on to its return, and
\* the caller keeps calling next() on the cursor it has built.
NextCall ==
    \/ UnionBegin
    \/ UnionDrain
    \/ UnionReturn
    \/ IntersectionBegin
    \/ IntersectionPop
    \/ IntersectionDrain
    \/ IntersectionReject
    \/ IntersectionReturn

FairSpec == Spec /\ WF_vars(NextCall)

----------------------------------------------------------------------------
(* Vocabulary of the properties.                                           *)

NumStreams == Len(streams)
Ordinals == 0..(NumStreams - 1)

\* The key set of input stream s.
KeySet(s) == {s[j].input : j \in DOMAIN s}

\* The input streams (by ordinal) whose key set contains key.
Holders(key) == {i \in Ordinals : key \in KeySet(streams[i + 1])}

\* The values input stream i associates with key (one value, or none).
ValuesIn(i, key) ==
    {streams[i + 1][j].output :
        j \in {n \in DOMAIN streams[i + 1] : streams[i + 1][n].input = key}}

UnionKeys == UNION {KeySet(streams[i + 1]) : i \in Ordinals}
IntersectionKeys == {k \in UnionKeys : Holders(k) = Ordinals}
EmittedKeys == {emitted[j].key : j \in DOMAIN emitted}

\* The cursor has reported exhausted and no call is running.
ReportedExhausted == mode # "build" /\ pc = "idle" /\ last = "None"

Indices(os) == {os[m].index : m \in DOMAIN os}

RECURSIVE SumOuts(_)
\* The caller's fold over a contribution list (stream_to_map, line 238).
SumOuts(os) == IF os = <<>> THEN 0 ELSE Head(os).output + SumOuts(Tail(os))

RECURSIVE SumValues(_, _)
\* The sum of key's values over the streams in S, each of which holds key.
SumValues(S, key) ==
    IF S = {} THEN 0
    ELSE LET i == CHOOSE x \in S : TRUE
             v == CHOOSE x \in ValuesIn(i, key) : TRUE
         IN  v + SumValues(S \ {i}, key)

AllStreamsEqual == \A i \in Ordinals : streams[i + 1] = streams[1]

----------------------------------------------------------------------------
(* Properties.                                                             *)

\* C1: when a union has reported exhausted, the keys it emitted are exactly
\* the set union of the input streams' key sets, and each such key was
\* emitted exactly once.
C1_UnionIsSetUnion ==
    (mode = "union" /\ ReportedExhausted) =>
        /\ EmittedKeys = UnionKeys
        /\ Len(emitted) = Cardinality(UnionKeys)

\* A finished union of at least two streams that share a key and also hold
\* keys that are not shared.
C1_Witness ==
    /\ mode = "union" /\ ReportedExhausted
    /\ NumStreams >= 2
    /\ \E k \in UnionKeys : Cardinality(Holders(k)) >= 2
    /\ \E k \in UnionKeys : Cardinality(Holders(k)) = 1
    /\ Len(emitted) >= 2

\* C2: when an intersection of N >= 1 streams has reported exhausted, the
\* keys it emitted are exactly the keys every input stream contains.
C2_IntersectionIsSetIntersection ==
    (mode = "intersection" /\ NumStreams >= 1 /\ ReportedExhausted) =>
        EmittedKeys = IntersectionKeys

\* A finished intersection of at least two streams with a common key and a
\* key that one of them lacks.
C2_Witness ==
    /\ mode = "intersection" /\ ReportedExhausted
    /\ NumStreams >= 2
    /\ IntersectionKeys # {}
    /\ UnionKeys # IntersectionKeys
    /\ emitted # <<>>

\* C3: for both cursors, every returned key is strictly greater, in byte
\* order, than every key returned before it.
C3_KeysStrictlyAscending ==
    \A j, k \in DOMAIN emitted :
        j < k => KeyLess(emitted[j].key, emitted[k].key)

\* A cursor over two or more streams that has returned three keys, one of
\* them a proper prefix of the next.
C3_Witness ==
    /\ NumStreams >= 2
    /\ Len(emitted) >= 3
    /\ emitted[1].key = <<1>> /\ emitted[2].key = <<1, 2>>

\* C4: for every key a union emits, the stream indices of its contribution
\* list are exactly the 0-based ordinals of the streams that contain the
\* key, and no index appears twice.
C4_UnionContributionIndices ==
    mode = "union" =>
        \A j \in DOMAIN emitted :
            /\ Indices(emitted[j].outs) = Holders(emitted[j].key)
            /\ Len(emitted[j].outs) = Cardinality(Indices(emitted[j].outs))

\* A union that emitted a key held by some but not all of three streams.
C4_Witness ==
    /\ mode = "union" /\ NumStreams = 3
    /\ \E j \in DOMAIN emitted :
        /\ Cardinality(Holders(emitted[j].key)) = 2
        /\ 0 \notin Holders(emitted[j].key)

\* C5: every contribution (index, output) either cursor returns for a key
\* carries the value stream #index associates with that key, and the sum
\* over the list is the sum of the key's values in all streams holding it.
C5_ContributionValues ==
    \A j \in DOMAIN emitted :
        /\ \A m \in DOMAIN emitted[j].outs :
            /\ emitted[j].outs[m].index \in Ordinals
            /\ ValuesIn(emitted[j].outs[m].index, emitted[j].key)
                   = {emitted[j].outs[m].output}
        /\ SumOuts(emitted[j].outs)
               = SumValues(Holders(emitted[j].key), emitted[j].key)

\* A key held by three streams with values 2, 1 and 1 was emitted, and its
\* contributions sum to 4.
C5_Witness ==
    /\ NumStreams = 3
    /\ \E j \in DOMAIN emitted :
        /\ ValuesIn(0, emitted[j].key) = {2}
        /\ ValuesIn(1, emitted[j].key) = {1}
        /\ ValuesIn(2, emitted[j].key) = {1}
        /\ SumOuts(emitted[j].outs) = 4

\* C6: every key an intersection of N streams emits comes with exactly N
\* contributions, one for each stream index 0..N-1.
C6_IntersectionContributionCount ==
    mode = "intersection" =>
        \A j \in DOMAIN emitted :
            /\ Len(emitted[j].outs) = NumStreams
            /\ Indices(emitted[j].outs) = Ordinals

\* An intersection of three streams emitted a key.
C6_Witness ==
    /\ mode = "intersection" /\ NumStreams = 3
    /\ emitted # <<>>

\* C7: a union of zero input streams never emits a key and never gets past
\* the empty-heap check: its first next() reports exhausted.
C7_EmptyUnionExhausted ==
    (mode = "union" /\ NumStreams = 0) =>
        /\ emitted = <<>>
        /\ pc = "idle"
        /\ last \in {"NotCalled", "None"}

\* next() was called on a union of zero streams.
C7_Witness ==
    /\ mode = "union" /\ NumStreams = 0
    /\ last = "None"

\* C8: the union and the intersection of N >= 1 copies of a stream S emit
\* S's keys in S's order, every one with exactly N contributions.
C8_CopiesReproduceStream ==
    (mode # "build" /\ NumStreams >= 1 /\ AllStreamsEqual) =>
        /\ \A j \in DOMAIN emitted : Len(emitted[j].outs) = NumStreams
        /\ ReportedExhausted =>
            /\ Len(emitted) = Len(streams[1])
            /\ \A j \in DOMAIN emitted : emitted[j].key = streams[1][j].input

\* A finished cursor over two or more copies of a stream of two or more keys.
C8_Witness ==
    /\ ReportedExhausted
    /\ NumStreams >= 2 /\ AllStreamsEqual
    /\ Len(streams[1]) >= 2
    /\ Len(emitted) = Len(streams[1])

\* C9 as stated: once an input stream of an intersection has reported
\* exhaustion, no later return of next() yields a key. The reader positions
\* do not move between a return and the state after it, so a stream that
\* counts as exhausted there reported it before that return.
C9_NoKeyAfterExhaustion ==
    (mode = "intersection" /\ pc = "idle" /\ last = "Some") =>
        Exhausted(streams, rdrs) = {}

\* C9 amended: no candidate that heap.pop() hands out after an input
\* stream has reported exhaustion is ever returned; a next() returns a key
\* after an exhaustion only if its candidate was popped before it.
C9_NoCandidateAfterExhaustionReturned ==
    (mode = "intersection" /\ pc = "idle" /\ last = "Some") =>
        exhAtPop = {}

\* A candidate was popped after a stream had reported exhaustion, and the
\* call that popped it has returned.
C9_Witness ==
    /\ mode = "intersection" /\ pc = "idle"
    /\ exhAtPop # {}
    /\ emitted # <<>>

\* C10: an input stream that has reported exhaustion is never read again
\* (it was read exactly once more than it has elements) and has no Slot in
\* the heap, as the withheld Slot, or in next()'s local.
C10_ExhaustedStreamRetired ==
    mode # "build" =>
        \A i \in Exhausted(streams, rdrs) :
            /\ rdrs[i + 1] = Len(streams[i + 1]) + 1
            /\ \A s \in heap : s.idx # i
            /\ cur_slot # <<>> => cur_slot[1].idx # i
            /\ slot # <<>> => slot[1].idx # i

\* A stream reported exhaustion, and afterwards two further next() calls
\* returned keys of the other streams.
C10_Witness ==
    /\ mode # "build" /\ pc = "idle" /\ last = "Some"
    /\ Len(emitted) >= 3
    /\ \E i \in Exhausted(streams, rdrs) :
        /\ i \notin Indices(emitted[Len(emitted)].outs)
        /\ i \notin Indices(emitted[Len(emitted) - 1].outs)
        /\ i \in Indices(emitted[1].outs)

\* The Slots of stream i in the heap and the withheld cur_slot together.
SlotsOf(i) ==
    Cardinality({s \in heap : s.idx = i})
        + (IF cur_slot # <<>> /\ cur_slot[1].idx = i THEN 1 ELSE 0)

\* C11: in every state of either cursor each stream ordinal has at most one
\* Slot among the heap and cur_slot together; and whenever a next() call
\* can start, the heap holds exactly one Slot for each stream that has not
\* reported exhaustion and is not the withheld one, and none for the others.
C11_OneSlotPerStream ==
    mode # "build" =>
        /\ \A i \in Ordinals : SlotsOf(i) <= 1
        /\ \A s \in heap : s.idx \in Ordinals
        /\ pc = "idle" =>
            \A i \in Ordinals :
                Cardinality({s \in heap : s.idx = i})
                    = IF /\ i \notin Exhausted(streams, rdrs)
                         /\ ~(cur_slot # <<>> /\ cur_slot[1].idx = i)
                      THEN 1 ELSE 0

\* Between two calls of a cursor over three streams: one stream is
\* withheld, one has reported exhaustion, and one has its Slot in the heap.
C11_Witness ==
    /\ mode # "build" /\ pc = "idle" /\ NumStreams = 3
    /\ cur_slot # <<>>
    /\ Exhausted(streams, rdrs) # {}
    /\ heap # {}

\* The position of key in input stream i (the stream holds it).
PosOf(i, key) ==
    CHOOSE n \in DOMAIN streams[i + 1] : streams[i + 1][n].input = key

\* The withheld Slot is its stream's latest element: the stream has not been
\* read past it.
WithheldIsHead ==
    cur_slot # <<>> =>
        LET s == cur_slot[1]
            n == rdrs[s.idx + 1]
        IN  /\ n \in DOMAIN streams[s.idx + 1]
            /\ streams[s.idx + 1][n] = [input |-> s.input, output |-> s.output]

C12_State ==
    mode # "build" =>
        /\ (pc = "idle" /\ last = "NotCalled") => cur_slot = <<>>
        /\ WithheldIsHead
        /\ (pc = "idle" /\ last = "Some") =>
            LET e == emitted[Len(emitted)]
            IN  /\ cur_slot # <<>>
                /\ cur_slot[1].input = e.key
                /\ FstOutputOf(cur_slot[1]) = e.outs[1]
                /\ \A m \in 2..Len(e.outs) :
                    rdrs[e.outs[m].index + 1]
                        = PosOf(e.outs[m].index, e.key) + 1

\* The step that starts a call while a Slot is withheld reads the withheld
\* stream once and no other stream, and a Slot popped in that step is a
\* greatest one of the heap as it is after that read.
C12_Step ==
    (pc = "idle" /\ cur_slot # <<>>) =>
        /\ rdrs' = [rdrs EXCEPT ![cur_slot[1].idx + 1] = @ + 1]
        /\ cur_slot' # <<>> =>
            /\ \A t \in heap' : SlotCmp(t, cur_slot'[1]) # "Greater"
            /\ heap' \cup {cur_slot'[1]}
                   = Refill(streams, [rdrs |-> rdrs, heap |-> heap],
                            cur_slot[1]).heap

\* C12: when next() returns key k, cur_slot holds the first-popped Slot of
\* key k and its stream has not been read past k; that stream is read next
\* only by the step that starts the following call, before any pop; every
\* other stream that matched k has been read exactly once more; and
\* cur_slot is empty before the first call.
C12_LazyRefill == []C12_State /\ [][C12_Step]_vars

\* A call has returned a key that two further streams matched, and the
\* withheld stream still has an element to be read by the next call.
C12_Witness ==
    /\ mode # "build" /\ pc = "idle" /\ last = "Some"
    /\ Len(emitted[Len(emitted)].outs) = 3
    /\ rdrs[cur_slot[1].idx + 1] < Len(streams[cur_slot[1].idx + 1])

\* C13: no Slot is left in the heap at a stale key. Whenever a cursor has
\* returned key k, and whenever the intersection has rejected candidate k
\* and is back at the top of its loop, every Slot in the heap holds a key
\* strictly greater than k; and the candidate keys heap.pop() hands out,
\* across loop iterations and calls, are strictly increasing.
C13_NoStaleSlot ==
    /\ (mode # "build" /\ pc = "idle" /\ last = "Some") =>
        \A s \in heap : KeyLess(emitted[Len(emitted)].key, s.input)
    /\ (mode = "intersection" /\ pc = "loop" /\ cands # <<>>) =>
        \A s \in heap : KeyLess(cands[Len(cands)], s.input)
    /\ \A j, k \in DOMAIN cands : j < k => KeyLess(cands[j], cands[k])

\* The intersection rejected a candidate that two of three streams matched
\* and is back at the top of its loop with a Slot still in the heap.
C13_Witness ==
    /\ mode = "intersection" /\ pc = "loop" /\ NumStreams = 3
    /\ Len(cands) > Len(emitted)
    /\ Len(outs) = 2
    /\ heap # {}

RECURSIVE SortKeys(_)
\* The keys of ks in ascending byte order.
SortKeys(ks) ==
    IF ks = {} THEN <<>>
    ELSE <<MinKey(ks)>> \o SortKeys(ks \ {MinKey(ks)})

\* What the inputs alone determine: the keys a cursor is to emit, in order,
\* and the (index, value) contributions of a key.
ExpectedKeys ==
    SortKeys(IF mode = "union" THEN UnionKeys ELSE IntersectionKeys)

ExpectedContributions(key) ==
    {[index |-> i, output |-> streams[i + 1][PosOf(i, key)].output] :
        i \in Holders(key)}

Contributions(os) == {os[m] : m \in DOMAIN os}

\* C14: the sequence of emitted keys and the set of (index, value)
\* contributions of each emitted key are a function of the input streams
\* alone, so they are the same whichever Slot the heap hands out among
\* Slots of identical key and value: every run emits the keys the inputs
\* determine, each with the contribution set the inputs determine, and has
\* emitted all of them when it reports exhausted.
C14_TieBreakIndependent ==
    mode # "build" =>
        /\ Len(emitted) <= Len(ExpectedKeys)
        /\ \A j \in DOMAIN emitted :
            /\ emitted[j].key = ExpectedKeys[j]
            /\ Contributions(emitted[j].outs)
                   = ExpectedContributions(emitted[j].key)
            /\ Len(emitted[j].outs)
                   = Cardinality(ExpectedContributions(emitted[j].key))
        /\ ReportedExhausted => Len(emitted) = Len(ExpectedKeys)

\* The heap had Slots of identical key and value to choose from and handed
\* out the one of the higher ordinal first: the entries of the contribution
\* list are in another order than the ordinals, and the withheld Slot is
\* not the one of the lowest ordinal.
C14_Witness ==
    /\ mode # "build" /\ pc = "idle" /\ last = "Some"
    /\ LET e == emitted[Len(emitted)]
       IN  /\ Len(e.outs) >= 2
           /\ e.outs[1].output = e.outs[2].output
           /\ e.outs[1].index > e.outs[2].index
           /\ cur_slot[1].idx = e.outs[1].index

\* A rejection reads the rejected candidate's stream once.
RejectionConsumes ==
    (pc = "drain" /\ pc' = "loop") =>
        rdrs'[slot[1].idx + 1] = rdrs[slot[1].idx + 1] + 1

\* C15: over finite input streams every next() call that has started
\* returns, repeated next() calls eventually report exhausted, and every
\* rejection of a candidate in the intersection's loop consumes an input
\* element.
C15_Terminates ==
    /\ [](pc # "idle" => <>(pc = "idle"))
    /\ [](mode # "build" => <>ReportedExhausted)
    /\ [][RejectionConsumes]_vars

\* An intersection has reported exhausted after rejecting two or more
\* candidates.
C15_Witness ==
    /\ mode = "intersection" /\ ReportedExhausted
    /\ Len(cands) >= Len(emitted) + 2

\* The places (emission j, entry m) where element n of stream i is reported
\* under its own key as (i, its value).
ReportsOf(i, n) ==
    UNION {{<<j, m>> : m \in {x \in DOMAIN emitted[j].outs :
                /\ emitted[j].key = streams[i + 1][n].input
                /\ emitted[j].outs[x]
                       = [index |-> i, output |-> streams[i + 1][n].output]}} :
           j \in DOMAIN emitted}

RECURSIVE TotalContributions(_)
TotalContributions(es) ==
    IF es = <<>> THEN 0
    ELSE Len(Head(es).outs) + TotalContributions(Tail(es))

\* C16: when a union has reported exhausted, every element of every input
\* stream is reported in exactly one place of the emitted contribution
\* lists, the number of contributions equals the number of input elements,
\* and every stream was read exactly its length plus one times. While the
\* union runs, a stream's read count never exceeds that, and every element
\* read has at most one report.
C16_UnionConservation ==
    mode = "union" =>
        /\ \A i \in Ordinals :
            /\ rdrs[i + 1] <= Len(streams[i + 1]) + 1
            /\ \A n \in DOMAIN streams[i + 1] :
                Cardinality(ReportsOf(i, n)) <= 1
        /\ ReportedExhausted =>
            /\ \A i \in Ordinals :
                /\ rdrs[i + 1] = Len(streams[i + 1]) + 1
                /\ \A n \in DOMAIN streams[i + 1] :
                    Cardinality(ReportsOf(i, n)) = 1
            /\ TotalContributions(emitted) = TotalLen(streams)

\* A finished union of three streams with four elements, two of them under
\* the same key.
C16_Witness ==
    /\ mode = "union" /\ ReportedExhausted
    /\ NumStreams = 3
    /\ TotalLen(streams) = 4
    /\ Len(emitted) = 3

\* C17: an intersection of zero input streams never emits a key and never
\* reaches the match-count comparison (position "drain"): its first next()
\* returns None from the empty-heap check.
C17_EmptyIntersectionExhausted ==
    (mode = "intersection" /\ NumStreams = 0) =>
        /\ emitted = <<>>
        /\ cands = <<>>
        /\ pc \in {"idle", "loop"}
        /\ last \in {"NotCalled", "None"}

\* next() was called on an intersection of zero streams and has returned.
C17_Witness ==
    /\ mode = "intersection" /\ NumStreams = 0
    /\ pc = "idle" /\ last = "None"

\* Once exhausted has been reported the heap and cur_slot are empty, also
\* while a later call runs, and no later call gets past the empty-heap check.
C18_State ==
    (mode # "build" /\ last = "None") =>
        /\ heap = {}
        /\ cur_slot = <<>>
        /\ pc \in {"idle", "loop"}

\* After exhausted has been reported, a step of a later call reports
\* exhausted again or moves the call on, reads no stream and changes no
\* field of the cursor.
C18_Step ==
    last = "None" =>
        /\ last' = "None"
        /\ UNCHANGED <<streams, mode, rdrs, heap, cur_slot, outs, slot,
                       popped, emitted, cands>>

\* C18: exhaustion is absorbing. Once next() has reported exhausted, the
\* heap and cur_slot are empty, and every later next() call reports
\* exhausted too, reads no input stream and changes no state.
C18_ExhaustionAbsorbing == []C18_State /\ [][C18_Step]_vars

\* A later next() call is running on an intersection that had emitted a
\* key and then reported exhausted.
C18_Witness ==
    /\ mode = "intersection" /\ last = "None"
    /\ pc = "loop"
    /\ emitted # <<>>

\* C19: the contribution list returned for a key is in nondecreasing order
\* of output value, and its first entry is that of the withheld Slot, whose
\* output is the smallest of the list. (That the list need not be in
\* ascending stream-index order is what C19_Witness reaches.)
C19_ContributionOrder ==
    /\ \A j \in DOMAIN emitted :
        \A m \in DOMAIN emitted[j].outs :
            m > 1 => emitted[j].outs[m - 1].output <= emitted[j].outs[m].output
    /\ (mode # "build" /\ pc = "idle" /\ last = "Some") =>
        LET e == emitted[Len(emitted)]
        IN  /\ FstOutputOf(cur_slot[1]) = e.outs[1]
            /\ \A m \in DOMAIN e.outs : e.outs[1].output <= e.outs[m].output

\* A key came back with the contribution of stream 1 (value 1) before that
\* of stream 0 (value 2): value order, not stream-index order, and stream 1
\* is the withheld one.
C19_Witness ==
    /\ mode # "build" /\ pc = "idle" /\ last = "Some"
    /\ LET e == emitted[Len(emitted)]
       IN  /\ Len(e.outs) >= 2
           /\ e.outs[1] = [index |-> 1, output |-> 1]
           /\ e.outs[2] = [index |-> 0, output |-> 2]
           /\ cur_slot[1].idx = 1

====
